---------------------------- MODULE Spec2Model ----------------------------
(***************************************************************************)
(* Model of os_tester's stage orchestration (StagesSystem.py): run_stages, *)
(* __run_stage, __wait_for_stage_done and __perform_stage_actions, as a    *)
(* sequential program with one action per statement group; of the scorer   *)
(* __img_mse on small images (specification SpecMse); and of the keyboard  *)
(* actions of the VM driver newvm.py (specification SpecVm).               *)
(*                                                                         *)
(* Time is counted in ticks of the polling interval (sleep(0.25)): a       *)
(* timeoutS of 2 is two polling intervals.  Scores are integers on a scale *)
(* on which only the order matters (the code compares them with < and >).  *)
(* A screenshot is represented by the scores it yields against each        *)
(* reference image of the active stage: the scorer's numeric routines are  *)
(* external (cv2, skimage), so every combination of scores is a possible   *)
(* capture.                                                                *)
(***************************************************************************)
EXTENDS Integers, Sequences, FiniteSets, TLC

VARIABLES
    stagesList,     \* stagesObj.stagesList: the loaded stages, read-only
    pc,             \* position of the single thread of control
    nextStage,      \* run_stages' nextStage: position (1-based) in stagesList
    nextStageName,  \* run_stages' nextStageName ("" while a stage runs)
    now,            \* the wall clock time() reads, in ticks
    start,          \* __wait_for_stage_done's start
    subpath,        \* the validation loop's variable: 0-based position, -1 unbound
    refImgList,     \* number of reference images loaded into refImgList
    curImg,         \* the last capture, as its scores against each reference
    index,          \* the comparison loop's index (0-based)
    resultindex,    \* -1, or the 0-based index of the candidate judged the same
    subPath,        \* __run_stage's subPath: 0-based position returned, -1 none
    actionPos,      \* number of descriptors of stageObj.actions already iterated
    calls,          \* Machine Capability calls made in this visit of the stage
    shots,          \* take_screenshot calls made by the polling loop in this visit
    exitStatus,     \* status passed to sys.exit/exit, -1 while none was called
    debugPlt,       \* self.debugPlt, set by __init__
    scored,         \* __comp_images calls of the current iteration, in order
    plotted,        \* update_plot calls of the current iteration, in order
    checked,        \* <<stage, candidate>> positions whose checkFile was tested
    exception,      \* the descriptor the raised Exception names, <<>> if none
    scorerCur,      \* __img_mse's curImg (already resized), <<>> outside a call
    scorerRef,      \* __img_mse's refImg
    scorerOut,      \* what __img_mse returned, <<>> before it returns
    vmQueue,        \* newvm: the actions the caller hands to the driver, in order
    vmAct,          \* newvm: position (1-based) of the action being delivered
    vmPc,           \* newvm: position of the driver inside the current action
    vmPos,          \* newvm: number of keys of the current action dealt with
    wire            \* newvm: what reached the monitor and the sleeps, in order

\* what the orchestrator adds to its control state for the debug plot, the
\* record of its file checks and the exception it raises
traceVars == <<debugPlt, scored, plotted, checked, exception>>

\* the state of one call of the scorer
scorerVars == <<scorerCur, scorerRef, scorerOut>>

\* the state of the VM driver
vmVars == <<vmQueue, vmAct, vmPc, vmPos, wire>>

vars == <<stagesList, pc, nextStage, nextStageName, now, start, subpath,
          refImgList, curImg, index, resultindex, subPath, actionPos, calls,
          shots, exitStatus, traceVars, scorerVars, vmVars>>

(***************************************************************************)
(* Bounds                                                                  *)
(***************************************************************************)
\* the clock stops advancing at MaxTime ticks
MaxTime == 3
\* longest pathsList of a stage
MaxPaths == 2

(***************************************************************************)
(* The filesystem the reference paths are looked up in.                    *)
(***************************************************************************)
Files == {"ref.png", "absent.png", "dir"}

\* os.path.exists(refImgPath)
path_exists(p) == p # "absent.png"

\* os.path.isfile(refImgPath)
path_isfile(p) == p = "ref.png"

(***************************************************************************)
(* Configuration: stages, subpaths, action descriptors.                    *)
(***************************************************************************)
\* the terminal next-stage value run_stages compares with
NoneName == "None"

Subpath(f, t, n) ==
    [checkFile |-> f, checkMseLeq |-> t[1], checkSsimGeq |-> t[2], nextStage |-> n]

Stage(nm, acts, t, paths) ==
    [name |-> nm, actions |-> acts, timeoutS |-> t, pathsList |-> paths]

\* <<checkMseLeq, checkSsimGeq>>: a strict and a loose pair of thresholds
Strict == <<1, 1>>
Loose == <<2, 0>>
Thresholds == {Strict, Loose}

\* <<mse, ssim>> a comparison can yield: exact, mse off, ssim off, unrelated
Scores == {<<0, 2>>, <<1, 2>>, <<0, 1>>, <<2, 0>>}

\* names a Subpath may give as nextStage: the two stages, an unknown one, the end
NextNames == {"A", "B", "X", NoneName}

Timeouts == {0, 1, 2}

\* an action descriptor is a dict; only its keys decide the dispatch
ActionLists ==
    { <<>>,
      <<{"mouse_move"}, {"mouse_click"}>>,
      <<{"keyboard_key"}, {"keyboard_text"}, {"command"}>>,
      <<{"command"}, {"reboot"}, {"mouse_move"}>> }

SeqsUpTo(S, n) == UNION { [1..k -> S] : k \in 1..n }

\* candidate lists: each family varies one aspect of the candidates
ThresholdPaths ==
    { [i \in DOMAIN ts |-> Subpath("ref.png", ts[i], NoneName)] :
        ts \in SeqsUpTo(Thresholds, MaxPaths) }
FilePaths ==
    { [i \in DOMAIN fs |-> Subpath(fs[i], Loose, NoneName)] :
        fs \in SeqsUpTo(Files, MaxPaths) }
NextPaths ==
    { [i \in DOMAIN ns |-> Subpath("ref.png", Loose, ns[i])] :
        ns \in SeqsUpTo(NextNames, MaxPaths) }
PathLists == ThresholdPaths \cup FilePaths \cup NextPaths

\* the actions of the stages whose candidates vary
BaseActions == <<{"mouse_move"}, {"mouse_click"}>>

\* the entry stage: either its candidates and timeout vary, or its actions
\* and the stage its single candidate leads to
EntryStages ==
    { Stage("A", BaseActions, t, paths) : t \in Timeouts, paths \in PathLists }
    \cup
    { Stage("A", acts, 1, <<Subpath("ref.png", Loose, n)>>) :
        acts \in ActionLists, n \in NextNames }

\* the second stage: one that leads back to A, one whose reference is absent
OtherStages ==
    { Stage("B", <<{"keyboard_key"}>>, 1, <<Subpath("ref.png", Loose, "A")>>),
      Stage("B", <<{"keyboard_key"}>>, 1, <<Subpath("absent.png", Loose, NoneName)>>) }

Configurations == { <<a, b>> : a \in EntryStages, b \in OtherStages }

(***************************************************************************)
(* Program constants                                                       *)
(***************************************************************************)
\* sys.exit(2): reference image not found
ExitMissing == 2
\* sys.exit(3): reference path is no file
ExitNotFile == 3
\* the status of another failure used again for the timeout
ExitTimeout_reused == ExitMissing
\* exit(5): timeout
ExitTimeout == 5
\* exit(10): no stage with the requested name
ExitNoStage == 10
\* sleep(0.25) between two polling iterations: one tick
SleepTicks == 1

\* no exit call was made
NoExit == 0 - 1

(***************************************************************************)
(* Helpers translated from the code                                        *)
(***************************************************************************)
\* the stage object run_stages currently holds in nextStage
stageObj == stagesList[nextStage]

\* __comp_images(curImg, refImg) for the reference at 0-based position i:
\* <<mse, ssimIndex>> of the capture against that reference
comp_images(img, i) == img[i + 1]

\* line 155: same, judged with the thresholds of the variable subpath, which
\* still holds the last element the validation loop (line 130) iterated over
same(img, i) ==
    LET mse == comp_images(img, i)[1]
        ssimIndex == comp_images(img, i)[2]
        sp == stageObj.pathsList[subpath + 1]
    IN  IF mse < sp.checkMseLeq /\ ssimIndex > sp.checkSsimGeq THEN 1 ELSE 0

\* line 170: the condition under which the loop calls exit(5)
timeout_exceeded == start + stageObj.timeoutS >= now

\* the keyboard_key branch calling the method of the keyboard_text branch
ActionCall_copied(action) ==
    IF "mouse_move" \in action THEN "send_mouse_move_action"
    ELSE IF "mouse_click" \in action THEN "send_mouse_click_action"
    ELSE IF "keyboard_key" \in action THEN "send_keyboard_text_action"
    ELSE IF "keyboard_text" \in action THEN "send_keyboard_text_action"
    ELSE IF "command" \in action THEN "send_keyboard_text_action"
    ELSE "raise"

\* lines 46-57: the machine method a descriptor is dispatched to, by key
ActionCall(action) ==
    IF "mouse_move" \in action THEN "send_mouse_move_action"
    ELSE IF "mouse_click" \in action THEN "send_mouse_click_action"
    ELSE IF "keyboard_key" \in action THEN "send_keyboard_key_action"
    ELSE IF "keyboard_text" \in action THEN "send_keyboard_text_action"
    ELSE IF "command" \in action THEN "send_keyboard_text_action"
    ELSE "raise"

\* a scan that goes through the whole list and, finding nothing, leaves
\* nextStage as it is instead of ending the run
Lookup_keep_scanning(name) ==
    IF \E i \in DOMAIN stagesList : stagesList[i].name = name
      THEN CHOOSE i \in DOMAIN stagesList : stagesList[i].name = name
      ELSE nextStage

\* lines 208-215: the scan of stagesList for name.  The if/else sits inside
\* the for loop, so the first stage scanned either is the one (its position
\* is the result) or ends the run (0).
Lookup(name) == IF stagesList[1].name = name THEN 1 ELSE 0

(***************************************************************************)
(* Initial state: a StagesSystem was constructed, run_stages is called with *)
(* a loaded collection of stages.                                          *)
(***************************************************************************)
Init ==
    /\ stagesList \in Configurations
    /\ pc = "start"
    /\ nextStage = 0
    /\ nextStageName = ""
    /\ now = 0
    /\ start = 0
    /\ subpath = -1
    /\ refImgList = 0
    /\ curImg = <<>>
    /\ index = 0
    /\ resultindex = -1
    /\ subPath = -1
    /\ actionPos = 0
    /\ calls = <<>>
    /\ shots = 0
    /\ exitStatus = NoExit
    /\ debugPlt \in BOOLEAN
    /\ scored = <<>>
    /\ plotted = <<>>
    /\ checked = {}
    /\ exception = <<>>
    /\ scorerCur = <<>>
    /\ scorerRef = <<>>
    /\ scorerOut = <<>>
    /\ vmQueue = <<>>
    /\ vmAct = 0
    /\ vmPc = "idle"
    /\ vmPos = 0
    /\ wire = <<>>

(***************************************************************************)
(* run_stages                                                              *)
(***************************************************************************)
\* every reference of every stage tested when run_stages starts
EnterRunStages_eager ==
    /\ pc = "start"
    /\ nextStage' = 1
    /\ checked' = { <<i, j>> : i \in DOMAIN stagesList, j \in 1..MaxPaths }
    /\ IF \E i \in DOMAIN stagesList : \E j \in DOMAIN stagesList[i].pathsList :
            ~path_isfile(stagesList[i].pathsList[j].checkFile)
         THEN pc' = "exited" /\ exitStatus' = ExitMissing
         ELSE pc' = "run_stage" /\ exitStatus' = exitStatus
    /\ UNCHANGED <<stagesList, nextStageName, now, start, subpath, refImgList,
                   curImg, index, resultindex, subPath, actionPos, calls,
                   shots>>
    /\ UNCHANGED <<debugPlt, scored, plotted, exception>>
    /\ UNCHANGED <<scorerVars, vmVars>>

\* line 202: nextStage = stagesObj.stagesList[0]
EnterRunStages ==
    /\ pc = "start"
    /\ nextStage' = 1
    /\ pc' = "run_stage"
    /\ UNCHANGED <<stagesList, nextStageName, now, start, subpath, refImgList,
                   curImg, index, resultindex, subPath, actionPos, calls,
                   shots, exitStatus>>
    /\ UNCHANGED traceVars
    /\ UNCHANGED <<scorerVars, vmVars>>

\* the clock read into start on the first entry only
RunStage_keepStart ==
    /\ pc = "run_stage"
    /\ start' = IF nextStageName = "" THEN now ELSE start
    /\ subpath' = -1
    /\ refImgList' = 0
    /\ curImg' = <<>>
    /\ index' = 0
    /\ resultindex' = -1
    /\ subPath' = -1
    /\ actionPos' = 0
    /\ calls' = <<>>
    /\ shots' = 0
    /\ pc' = IF Len(stageObj.pathsList) = 0 THEN "capture" ELSE "validate"
    /\ UNCHANGED <<stagesList, nextStage, nextStageName, now, exitStatus>>
    /\ scored' = <<>>
    /\ plotted' = <<>>
    /\ UNCHANGED <<debugPlt, checked, exception>>
    /\ UNCHANGED <<scorerVars, vmVars>>

\* lines 204, 186-189, 127-129: __run_stage(nextStage) is called and enters
\* __wait_for_stage_done, which reads the clock into start
RunStage ==
    /\ pc = "run_stage"
    /\ start' = now
    /\ subpath' = -1
    /\ refImgList' = 0
    /\ curImg' = <<>>
    /\ index' = 0
    /\ resultindex' = -1
    /\ subPath' = -1
    /\ actionPos' = 0
    /\ calls' = <<>>
    /\ shots' = 0
    /\ pc' = IF Len(stageObj.pathsList) = 0 THEN "capture" ELSE "validate"
    /\ UNCHANGED <<stagesList, nextStage, nextStageName, now, exitStatus>>
    /\ scored' = <<>>
    /\ plotted' = <<>>
    /\ UNCHANGED <<debugPlt, checked, exception>>
    /\ UNCHANGED <<scorerVars, vmVars>>

(***************************************************************************)
(* __wait_for_stage_done: validation of the reference files (130-140)      *)
(***************************************************************************)
\* the element the for loop of line 130 is about to bind to subpath
NextRef == stageObj.pathsList[refImgList + 1]

Validating == pc = "validate" /\ refImgList < Len(stageObj.pathsList)

\* lines 132-134
ValidateMissing ==
    /\ Validating
    /\ ~path_exists(NextRef.checkFile)
    /\ subpath' = refImgList
    /\ exitStatus' = ExitMissing
    /\ pc' = "exited"
    /\ UNCHANGED <<stagesList, nextStage, nextStageName, now, start, refImgList,
                   curImg, index, resultindex, subPath, actionPos, calls, shots>>
    /\ checked' = checked \cup {<<nextStage, refImgList + 1>>}
    /\ UNCHANGED <<debugPlt, scored, plotted, exception>>
    /\ UNCHANGED <<scorerVars, vmVars>>

\* the isfile check left out: a path that exists is read like an image
ValidateNotFile_unchecked ==
    /\ Validating
    /\ path_exists(NextRef.checkFile)
    /\ ~path_isfile(NextRef.checkFile)
    /\ subpath' = refImgList
    /\ refImgList' = refImgList + 1
    /\ pc' = IF refImgList + 1 = Len(stageObj.pathsList) THEN "capture" ELSE "validate"
    /\ UNCHANGED <<stagesList, nextStage, nextStageName, now, start, curImg,
                   index, resultindex, subPath, actionPos, calls, shots,
                   exitStatus>>
    /\ checked' = checked \cup {<<nextStage, refImgList + 1>>}
    /\ UNCHANGED <<debugPlt, scored, plotted, exception>>
    /\ UNCHANGED <<scorerVars, vmVars>>

\* lines 136-138
ValidateNotFile ==
    /\ Validating
    /\ path_exists(NextRef.checkFile)
    /\ ~path_isfile(NextRef.checkFile)
    /\ subpath' = refImgList
    /\ exitStatus' = ExitNotFile
    /\ pc' = "exited"
    /\ UNCHANGED <<stagesList, nextStage, nextStageName, now, start, refImgList,
                   curImg, index, resultindex, subPath, actionPos, calls, shots>>
    /\ checked' = checked \cup {<<nextStage, refImgList + 1>>}
    /\ UNCHANGED <<debugPlt, scored, plotted, exception>>
    /\ UNCHANGED <<scorerVars, vmVars>>

\* line 140: the image is read and appended; after the last one the while
\* loop is entered
ValidateLoad ==
    /\ Validating
    /\ path_exists(NextRef.checkFile)
    /\ path_isfile(NextRef.checkFile)
    /\ subpath' = refImgList
    /\ refImgList' = refImgList + 1
    /\ pc' = IF refImgList + 1 = Len(stageObj.pathsList) THEN "capture" ELSE "validate"
    /\ UNCHANGED <<stagesList, nextStage, nextStageName, now, start, curImg,
                   index, resultindex, subPath, actionPos, calls, shots,
                   exitStatus>>
    /\ checked' = checked \cup {<<nextStage, refImgList + 1>>}
    /\ UNCHANGED <<debugPlt, scored, plotted, exception>>
    /\ UNCHANGED <<scorerVars, vmVars>>

(***************************************************************************)
(* __wait_for_stage_done: the polling loop (141-174)                       *)
(***************************************************************************)
\* lines 142-151: one screenshot is taken and read back.  The capture takes
\* d ticks; img is what the screen shows, as its scores per reference.
TakeScreenshot ==
    /\ pc = "capture"
    /\ \E d \in {0, 1}, img \in [1..refImgList -> Scores] :
        /\ now + d <= MaxTime
        /\ now' = now + d
        /\ curImg' = img
    /\ shots' = shots + 1
    /\ resultindex' = -1
    /\ index' = 0
    /\ pc' = IF refImgList = 0 THEN "decide" ELSE "compare"
    /\ UNCHANGED <<stagesList, nextStage, nextStageName, start, subpath,
                   refImgList, subPath, actionPos, calls, exitStatus>>
    /\ scored' = <<>>
    /\ plotted' = <<>>
    /\ UNCHANGED <<debugPlt, checked, exception>>
    /\ UNCHANGED <<scorerVars, vmVars>>

\* line 158: what update_plot is called with for the reference at index
PlotRecord ==
    <<index, comp_images(curImg, index)[1], comp_images(curImg, index)[2],
      same(curImg, index)>>

\* the break of line 161 indented under `if self.debugPlt`
Compare_breakInPlot(dbg, p, q) ==
    /\ pc = "compare"
    /\ scored' = Append(scored, <<index, comp_images(curImg, index)>>)
    /\ q = IF dbg THEN Append(p, PlotRecord) ELSE p
    /\ IF dbg /\ same(curImg, index) >= 1
         THEN /\ resultindex' = index
              /\ index' = index
              /\ pc' = "decide"
         ELSE /\ resultindex' = resultindex
              /\ IF index + 1 < refImgList
                   THEN index' = index + 1 /\ pc' = "compare"
                   ELSE index' = index /\ pc' = "decide"
    /\ UNCHANGED <<stagesList, nextStage, nextStageName, now, start, subpath,
                   refImgList, curImg, subPath, actionPos, calls, shots,
                   exitStatus, debugPlt, checked, exception>>
    /\ UNCHANGED <<scorerVars, vmVars>>

\* the loop without the break of line 163: the remaining references are
\* scored too
Compare_noBreak(dbg, p, q) ==
    /\ pc = "compare"
    /\ scored' = Append(scored, <<index, comp_images(curImg, index)>>)
    /\ q = IF dbg THEN Append(p, PlotRecord) ELSE p
    /\ IF same(curImg, index) >= 1
         THEN /\ resultindex' = index
              /\ IF index + 1 < refImgList
                   THEN index' = index + 1 /\ pc' = "compare"
                   ELSE index' = index /\ pc' = "decide"
         ELSE /\ resultindex' = resultindex
              /\ IF index + 1 < refImgList
                   THEN index' = index + 1 /\ pc' = "compare"
                   ELSE index' = index /\ pc' = "decide"
    /\ UNCHANGED <<stagesList, nextStage, nextStageName, now, start, subpath,
                   refImgList, curImg, subPath, actionPos, calls, shots,
                   exitStatus, debugPlt, checked, exception>>
    /\ UNCHANGED <<scorerVars, vmVars>>

\* lines 153-163: one iteration of the comparison loop, in a run whose
\* debugPlt is dbg and whose plot has received p before it and q after it
Compare(dbg, p, q) ==
    /\ pc = "compare"
    /\ scored' = Append(scored, <<index, comp_images(curImg, index)>>)
    /\ q = IF dbg THEN Append(p, PlotRecord) ELSE p
    /\ IF same(curImg, index) >= 1
         THEN /\ resultindex' = index
              /\ index' = index
              /\ pc' = "decide"
         ELSE /\ resultindex' = resultindex
              /\ IF index + 1 < refImgList
                   THEN index' = index + 1 /\ pc' = "compare"
                   ELSE index' = index /\ pc' = "decide"
    /\ UNCHANGED <<stagesList, nextStage, nextStageName, now, start, subpath,
                   refImgList, curImg, subPath, actionPos, calls, shots,
                   exitStatus, debugPlt, checked, exception>>
    /\ UNCHANGED <<scorerVars, vmVars>>

\* lines 152-163, one iteration that finds the images the same: break
CompareSame ==
    /\ pc = "compare"
    /\ same(curImg, index) >= 1
    /\ Compare(debugPlt, plotted, plotted')

\* lines 152-163, one iteration that does not: on to the next reference
CompareDifferent ==
    /\ pc = "compare"
    /\ ~(same(curImg, index) >= 1)
    /\ Compare(debugPlt, plotted, plotted')

\* the budget tested before a match is accepted: a match found after the
\* budget was used up ends the run like a timeout
ReturnMatch_withinBudget ==
    /\ pc = "decide"
    /\ resultindex # -1
    /\ IF now - start < stageObj.timeoutS
         THEN /\ subPath' = resultindex
              /\ subpath' = -1
              /\ refImgList' = 0
              /\ curImg' = <<>>
              /\ index' = 0
              /\ resultindex' = -1
              /\ pc' = "perform"
              /\ exitStatus' = exitStatus
              /\ scored' = <<>>
              /\ plotted' = <<>>
         ELSE /\ pc' = "exited"
              /\ exitStatus' = ExitTimeout
              /\ UNCHANGED <<subPath, subpath, refImgList, curImg, index,
                             resultindex, scored, plotted>>
    /\ UNCHANGED <<stagesList, nextStage, nextStageName, now, start, actionPos,
                   calls, shots>>
    /\ UNCHANGED <<debugPlt, checked, exception>>
    /\ UNCHANGED <<scorerVars, vmVars>>

\* lines 165-167: return stageObj.pathsList[resultindex].  The function's
\* locals end with the call; __run_stage keeps the returned subpath (189).
ReturnMatch ==
    /\ pc = "decide"
    /\ resultindex # -1
    /\ subPath' = resultindex
    /\ subpath' = -1
    /\ refImgList' = 0
    /\ curImg' = <<>>
    /\ index' = 0
    /\ resultindex' = -1
    /\ pc' = "perform"
    /\ UNCHANGED <<stagesList, nextStage, nextStageName, now, start, actionPos,
                   calls, shots, exitStatus>>
    /\ scored' = <<>>
    /\ plotted' = <<>>
    /\ UNCHANGED <<debugPlt, checked, exception>>
    /\ UNCHANGED <<scorerVars, vmVars>>

\* lines 170-172: exit(5)
TimeoutExit ==
    /\ pc = "decide"
    /\ resultindex = -1
    /\ timeout_exceeded
    /\ exitStatus' = ExitTimeout
    /\ pc' = "exited"
    /\ UNCHANGED <<stagesList, nextStage, nextStageName, now, start, subpath,
                   refImgList, curImg, index, resultindex, subPath, actionPos,
                   calls, shots>>
    /\ UNCHANGED traceVars
    /\ UNCHANGED <<scorerVars, vmVars>>

\* line 174: sleep(0.25), then the next iteration
SleepRetry ==
    /\ pc = "decide"
    /\ resultindex = -1
    /\ ~timeout_exceeded
    /\ now + SleepTicks <= MaxTime
    /\ now' = now + SleepTicks
    /\ pc' = "capture"
    /\ UNCHANGED <<stagesList, nextStage, nextStageName, start, subpath,
                   refImgList, curImg, index, resultindex, subPath, actionPos,
                   calls, shots, exitStatus>>
    /\ UNCHANGED traceVars
    /\ UNCHANGED <<scorerVars, vmVars>>

(***************************************************************************)
(* __perform_stage_actions (45-57) and the end of __run_stage (192-195)    *)
(***************************************************************************)
\* the descriptor the for loop of line 45 is about to handle
NextAction == stageObj.actions[actionPos + 1]

\* lines 46-55: the descriptor is handed to one machine method.  The machine
\* is the object the caller passed in; it is taken to offer the method under
\* the name StagesSystem asks for (the Machine Capability Interface).
SendAction ==
    /\ pc = "perform"
    /\ actionPos < Len(stageObj.actions)
    /\ ActionCall(NextAction) # "raise"
    /\ calls' = Append(calls, ActionCall(NextAction))
    /\ actionPos' = actionPos + 1
    /\ UNCHANGED <<stagesList, pc, nextStage, nextStageName, now, start, subpath,
                   refImgList, curImg, index, resultindex, subPath, shots,
                   exitStatus>>
    /\ UNCHANGED traceVars
    /\ UNCHANGED <<scorerVars, vmVars>>

\* a descriptor with no known key passed over without an exception
RaiseInvalidAction_skip ==
    /\ pc = "perform"
    /\ actionPos < Len(stageObj.actions)
    /\ ActionCall(NextAction) = "raise"
    /\ actionPos' = actionPos + 1
    /\ UNCHANGED <<stagesList, pc, nextStage, nextStageName, now, start, subpath,
                   refImgList, curImg, index, resultindex, subPath,
                   calls, shots, exitStatus>>
    /\ UNCHANGED traceVars
    /\ UNCHANGED <<scorerVars, vmVars>>

\* line 57: raise Exception("Invalid stage action")
RaiseInvalidAction ==
    /\ pc = "perform"
    /\ actionPos < Len(stageObj.actions)
    /\ ActionCall(NextAction) = "raise"
    /\ pc' = "raised"
    /\ UNCHANGED <<stagesList, nextStage, nextStageName, now, start, subpath,
                   refImgList, curImg, index, resultindex, subPath, actionPos,
                   calls, shots, exitStatus>>
    /\ exception' = NextAction
    /\ UNCHANGED <<debugPlt, scored, plotted, checked>>
    /\ UNCHANGED <<scorerVars, vmVars>>

\* lines 192-195, 204: __run_stage returns subPath.nextStage to run_stages
FinishStage ==
    /\ pc = "perform"
    /\ actionPos = Len(stageObj.actions)
    /\ nextStageName' = stageObj.pathsList[subPath + 1].nextStage
    /\ pc' = "resolve"
    /\ UNCHANGED <<stagesList, nextStage, now, start, subpath, refImgList,
                   curImg, index, resultindex, subPath, actionPos, calls, shots,
                   exitStatus>>
    /\ UNCHANGED traceVars
    /\ UNCHANGED <<scorerVars, vmVars>>

(***************************************************************************)
(* run_stages: what follows a finished stage (206-215)                     *)
(***************************************************************************)
\* the while loop going round again instead of ending at the sentinel
Terminate_continue ==
    /\ pc = "resolve"
    /\ nextStageName = NoneName
    /\ pc' = "run_stage"
    /\ UNCHANGED <<stagesList, nextStage, nextStageName, now, start, subpath,
                   refImgList, curImg, index, resultindex, subPath, actionPos,
                   calls, shots, exitStatus>>
    /\ UNCHANGED traceVars
    /\ UNCHANGED <<scorerVars, vmVars>>

\* lines 206-207: break, run_stages returns
Terminate ==
    /\ pc = "resolve"
    /\ nextStageName = NoneName
    /\ pc' = "done"
    /\ UNCHANGED <<stagesList, nextStage, nextStageName, now, start, subpath,
                   refImgList, curImg, index, resultindex, subPath, actionPos,
                   calls, shots, exitStatus>>
    /\ UNCHANGED traceVars
    /\ UNCHANGED <<scorerVars, vmVars>>

\* lines 208-212: the stage is found and becomes nextStage
ResolveNext ==
    /\ pc = "resolve"
    /\ nextStageName # NoneName
    /\ Lookup(nextStageName) # 0
    /\ nextStage' = Lookup(nextStageName)
    /\ pc' = "run_stage"
    /\ UNCHANGED <<stagesList, nextStageName, now, start, subpath, refImgList,
                   curImg, index, resultindex, subPath, actionPos, calls, shots,
                   exitStatus>>
    /\ UNCHANGED traceVars
    /\ UNCHANGED <<scorerVars, vmVars>>

\* lines 213-215: exit(10)
ResolveExit ==
    /\ pc = "resolve"
    /\ nextStageName # NoneName
    /\ Lookup(nextStageName) = 0
    /\ exitStatus' = ExitNoStage
    /\ pc' = "exited"
    /\ UNCHANGED <<stagesList, nextStage, nextStageName, now, start, subpath,
                   refImgList, curImg, index, resultindex, subPath, actionPos,
                   calls, shots>>
    /\ UNCHANGED traceVars
    /\ UNCHANGED <<scorerVars, vmVars>>

Next ==
    \/ EnterRunStages
    \/ RunStage
    \/ ValidateMissing
    \/ ValidateNotFile
    \/ ValidateLoad
    \/ TakeScreenshot
    \/ CompareSame
    \/ CompareDifferent
    \/ ReturnMatch
    \/ TimeoutExit
    \/ SleepRetry
    \/ SendAction
    \/ RaiseInvalidAction
    \/ FinishStage
    \/ Terminate
    \/ ResolveNext
    \/ ResolveExit

Spec == Init /\ [][Next]_vars

(***************************************************************************)
(* Properties of the synchronization loop                                  *)
(***************************************************************************)
\* a stage is being run: nextStage is bound and __run_stage was entered
InStage == pc \notin {"start", "run_stage"}

\* the candidate at 0-based position i satisfies its own thresholds on img
OwnMatch(img, i) ==
    LET sp == stageObj.pathsList[i + 1]
    IN  img[i + 1][1] < sp.checkMseLeq /\ img[i + 1][2] > sp.checkSsimGeq

\* the candidates that satisfy their own thresholds on img
OwnMatches(img) == { i \in 0..(Len(img) - 1) : OwnMatch(img, i) }

\* the comparison loop of the current iteration has ended
Decided == pc = "decide" /\ refImgList > 0

\* C1: whenever the comparison loop ends with a candidate to return, the
\* scores of the capture against that candidate's reference satisfy that
\* candidate's own thresholds (mse < checkMseLeq and ssim > checkSsimGeq).
C1_ReturnsOnlyOwnMatch ==
    (Decided /\ resultindex # -1) => OwnMatch(curImg, resultindex)

\* C2: whenever two or more candidates satisfy their own thresholds on the
\* capture of an iteration, the candidate the iteration returns is the one
\* of them with the lowest index.
C2_FirstMatchPriority ==
    (Decided /\ Cardinality(OwnMatches(curImg)) >= 2) =>
        /\ resultindex \in OwnMatches(curImg)
        /\ \A i \in OwnMatches(curImg) : resultindex <= i

\* C3: the run never ends with the timeout status while the time elapsed
\* since the loop's start is less than the stage's timeoutS.
C3_NoTimeoutWithinBudget ==
    (pc = "exited" /\ exitStatus = ExitTimeout) =>
        now - start >= stageObj.timeoutS

\* C4: an iteration that ends unmatched with the elapsed time at or beyond
\* timeoutS is followed by the timeout exit (status 5), never by another poll.
C4_TimeoutAborts ==
    [][ (pc = "decide" /\ resultindex = -1 /\ now - start >= stageObj.timeoutS)
          => (pc' = "exited" /\ exitStatus' = ExitTimeout) ]_vars

\* positions (1-based) of the candidates whose checkFile is absent or no file
BadRefs ==
    { i \in 1..Len(stageObj.pathsList) :
        LET f == stageObj.pathsList[i].checkFile
        IN  ~path_exists(f) \/ ~path_isfile(f) }

FirstBadRef == CHOOSE i \in BadRefs : \A j \in BadRefs : i <= j

\* C5: while a stage with a bad reference is the active stage, no screenshot
\* is taken for it and the run is either still validating or has exited,
\* with status 2 if the first bad path is absent and 3 if it is no file.
C5_BadReferenceAbortsBeforePolling ==
    (InStage /\ BadRefs # {}) =>
        /\ shots = 0
        /\ pc \in {"validate", "exited"}
        /\ pc = "exited" =>
             exitStatus =
               IF stageObj.pathsList[FirstBadRef].checkFile = "absent.png"
                 THEN 2 ELSE 3

\* C5 witness: the second reference is a directory; the first was loaded,
\* the run ended with status 3 and no screenshot was taken
C5_Witness ==
    /\ pc = "exited"
    /\ exitStatus = 3
    /\ refImgList = 1
    /\ stageObj.pathsList[2].checkFile = "dir"
    /\ shots = 0

(***************************************************************************)
(* Properties of the orchestrator and the dispatcher                       *)
(***************************************************************************)
\* some stage of the loaded collection is called name
Resolvable(name) == \E i \in DOMAIN stagesList : stagesList[i].name = name

\* C6: when a stage has finished and the name it gave is not the sentinel
\* and is the name of a loaded stage, the next step makes that stage the
\* current one and the run goes on without an exit.
C6_ResolvesNamedStage ==
    [][ (pc = "resolve" /\ nextStageName # "None" /\ Resolvable(nextStageName))
          => /\ pc' = "run_stage"
             /\ stagesList[nextStage'].name = nextStageName
             /\ exitStatus' = NoExit ]_vars

\* C7: when a stage has finished and the name it gave is neither the sentinel
\* nor the name of any loaded stage, the next step ends the run with status
\* 10 without a screenshot or a change of stage; an ended run takes no step.
C7_UnresolvableNextStageAborts ==
    [][ /\ (pc = "resolve" /\ nextStageName # "None" /\ ~Resolvable(nextStageName))
          => /\ pc' = "exited"
             /\ exitStatus' = 10
             /\ shots' = shots
             /\ nextStage' = nextStage
        /\ pc = "exited" => pc' = "exited" ]_vars

\* C7 witness: the run ended with status 10 on the unknown name "X"
C7_Witness ==
    /\ pc = "exited"
    /\ exitStatus = 10
    /\ nextStageName = "X"
    /\ ~Resolvable("X")

\* the machine method each kind of action is delivered through
CallOfTag ==
    [ mouse_move |-> "send_mouse_move_action",
      mouse_click |-> "send_mouse_click_action",
      keyboard_key |-> "send_keyboard_key_action",
      keyboard_text |-> "send_keyboard_text_action",
      command |-> "send_keyboard_text_action" ]

\* the calls a list of well-formed descriptors asks for, one per descriptor
ExpectedCalls(acts, n) ==
    [ i \in 1..n |-> CallOfTag[CHOOSE tag \in acts[i] : TRUE] ]

C9_ExitStatusByCondition ==
    /\ Cardinality({ExitMissing, ExitNotFile, ExitTimeout, ExitNoStage}) = 4
    /\ 0 \notin {ExitMissing, ExitNotFile, ExitTimeout, ExitNoStage}
    /\ pc # "exited" => exitStatus = NoExit
    /\ pc = "exited" =>
         IF subPath # -1
           THEN exitStatus = 10
           ELSE IF refImgList < Len(stageObj.pathsList)
             THEN exitStatus = (IF path_exists(NextRef.checkFile) THEN 3 ELSE 2)
             ELSE exitStatus = 5 /\ resultindex = -1 /\ shots >= 1

\* C9 witness: a run ended by the timeout exit with the budget used up
C9_Witness ==
    /\ pc = "exited"
    /\ exitStatus = 5
    /\ shots >= 1
    /\ now - start >= stageObj.timeoutS

C11_TelemetryNonInterference ==
    [][ /\ debugPlt' = debugPlt
        /\ pc = "compare" =>
              \A dbg \in BOOLEAN :
                  \E q \in {<<>>, <<PlotRecord>>} : Compare(dbg, <<>>, q)
        /\ pc # "compare" => (plotted' = plotted \/ plotted' = <<>>)
        /\ ~debugPlt => plotted' = <<>> ]_vars

\* C11 witness: with the flag set the sink received the records of two
\* comparisons and the second one was judged a match
C11_Witness ==
    /\ debugPlt
    /\ pc = "decide"
    /\ resultindex = 1
    /\ Len(plotted) = 2

\* ------------------------------------------------------------------
\* The polling iteration (lines 141-174)

\* the statement that the budget is tested before the capture: an iteration
\* that begins with the budget used up captures nothing and ends the run
C14_TimeoutCheckedBeforeCapture ==
    [][ (pc = "capture" /\ now - start >= stageObj.timeoutS) =>
            (shots' = shots /\ pc' = "exited" /\ exitStatus' = ExitTimeout)
      ]_vars

\* C14: the budget is tested at the end of an iteration and only when no
\* candidate matched.  Every iteration captures, whatever time has elapsed;
\* a match is returned, whatever time has elapsed; the timeout exit is
\* taken only after a capture none of whose candidates matched.
C14_TimeoutCheckedAfterUnmatched ==
    [][ /\ pc = "capture" =>
              (shots' = shots + 1 /\ exitStatus' = NoExit /\ pc' # "exited")
        /\ (pc = "decide" /\ resultindex # -1) =>
              (pc' = "perform" /\ subPath' = resultindex /\ exitStatus' = NoExit)
        /\ (exitStatus' = ExitTimeout /\ exitStatus # ExitTimeout) =>
              (pc = "decide" /\ resultindex = -1 /\ shots >= 1) ]_vars

\* C14 witness: a match was returned from a capture that ended after the
\* budget of the stage was used up
C14_Witness ==
    /\ pc = "perform"
    /\ subPath # -1
    /\ actionPos = 0
    /\ shots >= 1
    /\ now - start >= stageObj.timeoutS

\* the scores of the first n candidates on the capture img
ScoredPrefix(img, n) == [ i \in 1..n |-> <<i - 1, img[i]>> ]

\* what the sink is handed for the scored candidates
PlottedFor(sc) ==
    [ i \in 1..Len(sc) |-> <<sc[i][1], sc[i][2][1], sc[i][2][2],
                             same(curImg, sc[i][1])>> ]

\* the state of one iteration: the candidates scored so far are a prefix of
\* the list, each scored on the capture of this iteration, none of them
\* but the last judged a match, and the sink has their records or nothing
IterationState ==
    /\ pc \in {"compare", "decide"} =>
          /\ shots >= 1
          /\ Len(curImg) = refImgList
          /\ Len(scored) <= refImgList
          /\ scored = ScoredPrefix(curImg, Len(scored))
          /\ plotted = IF debugPlt THEN PlottedFor(scored) ELSE <<>>
          /\ \A i \in 1..(Len(scored) - 1) : same(curImg, i - 1) = 0
    /\ pc = "compare" =>
          /\ Len(scored) = index
          /\ resultindex = -1
          /\ index > 0 => same(curImg, index - 1) = 0
    /\ (pc = "decide" /\ resultindex # -1) =>
          /\ Len(scored) = resultindex + 1
          /\ same(curImg, resultindex) >= 1
    /\ (pc = "decide" /\ resultindex = -1) =>
          /\ Len(scored) = refImgList
          /\ \A i \in 1..refImgList : same(curImg, i - 1) = 0

\* C15: an iteration takes exactly one capture, and that at its beginning;
\* the capture stays the same while candidates are scored; the candidates
\* scored are the prefix up to and including the first one judged a match.
C15_OneCaptureScoredPrefix ==
    [][ /\ IterationState'
        /\ pc = "capture" => (shots' = shots + 1 /\ pc' \in {"compare", "decide"})
        /\ pc \in {"compare", "decide"} =>
              /\ shots' = shots \/ shots' = 0
              /\ pc' \in {"compare", "decide"} => curImg' = curImg ]_vars

\* C15 witness: the first of two candidates was judged a match although
\* the second would have matched too; only the first was scored
C15_Witness ==
    /\ pc = "decide"
    /\ refImgList = 2
    /\ resultindex = 0
    /\ Len(scored) = 1
    /\ same(curImg, 1) >= 1
    /\ shots = 1

\* ------------------------------------------------------------------
\* Invalid descriptors (lines 45-57)

KnownKeys ==
    {"mouse_move", "mouse_click", "keyboard_key", "keyboard_text", "command"}

Recognised(action) == action \cap KnownKeys # {}

\* the state after the dispatch of some descriptors: all of them were
\* recognised; an exception names the first descriptor that is not, and
\* the calls made are those of the descriptors before it
DispatchState ==
    /\ InStage =>
          \A i \in 1..actionPos : Recognised(stageObj.actions[i])
    /\ pc = "raised" =>
          /\ actionPos < Len(stageObj.actions)
          /\ exception = stageObj.actions[actionPos + 1]
          /\ ~Recognised(exception)
          /\ calls = ExpectedCalls(stageObj.actions, actionPos)
          /\ exitStatus = NoExit
    /\ pc # "raised" => exception = <<>>

C19_LazyValidation ==
    [][ /\ checked' # checked =>
              /\ pc = "validate"
              /\ checked' = checked \cup {<<nextStage, refImgList + 1>>}
        /\ pc' = "run_stage" =>
              \/ pc = "start"
              \/ /\ pc = "resolve"
                 /\ subPath # -1
                 /\ actionPos = Len(stageObj.actions)
        /\ (exitStatus' \in {ExitMissing, ExitNotFile} /\ exitStatus = NoExit) =>
              /\ pc = "validate"
              /\ <<nextStage, refImgList + 1>> \in checked'
              /\ ~path_isfile(NextRef.checkFile) ]_vars

\* C19 witness: the run ended by the sentinel although the second stage
\* names a missing reference; only references of the first were tested
C19_Witness ==
    /\ pc = "done"
    /\ exitStatus = NoExit
    /\ stagesList[2].pathsList[1].checkFile = "absent.png"
    /\ checked # {}
    /\ \A c \in checked : c[1] = 1

\* C20: the elapsed time of a visit counts from the entry into this visit:
\* it is at most the time the captures and sleeps of this visit took; and
\* the timeout exit and the sleep are chosen by comparing it with timeoutS
\* of the active stage (in the direction of line 170).
C20_BudgetPerVisit ==
    /\ pc \in {"validate", "capture", "compare", "decide"} =>
          /\ 0 <= now - start
          /\ now - start <= (1 + SleepTicks) * shots
    /\ (pc = "exited" /\ exitStatus = ExitTimeout) =>
          now - start <= stageObj.timeoutS
    /\ (pc = "capture" /\ shots >= 1) =>
          now - start > stageObj.timeoutS + SleepTicks

\* C20 witness: a second visit of the stage, entered after time had passed
\* in the first one, with its own elapsed time still zero
C20_Witness ==
    /\ pc = "decide"
    /\ nextStageName = "A"
    /\ start >= 1
    /\ now = start

(***************************************************************************)
(* The scorer: __img_mse (lines 59-87)                                     *)
(***************************************************************************)

\* number of pixels of the largest image scored
MaxPixels == 1

\* channels of an image cv2.imread loads (BGR)
Channels == 3

\* sample values of a channel: a small difference, and differences whose
\* square is beyond the range of an 8-bit sample
Samples == {0, 3, 16}

\* an image of n pixels: h * w = n
Images(n) == [1..n -> [1..Channels -> Samples]]

\* values of a numpy.uint8
Uint8 == 256

\* line 85: the cap of the score
MseCap == 10

\* line 76, one sample: cv2.subtract on 8-bit images saturates at 0
subtract(a, b) == IF a > b THEN a - b ELSE 0

\* line 77, one sample: ** on a uint8 array keeps the dtype
square(d) == (d * d) % Uint8

RECURSIVE SumSeq(_)
SumSeq(q) == IF q = <<>> THEN 0 ELSE Head(q) + SumSeq(Tail(q))

\* line 77: np.sum over all pixels and channels (accumulated in 64 bits)
np_sum(img) == SumSeq([ p \in DOMAIN img |-> SumSeq(img[p]) ])

Min(a, b) == IF a <= b THEN a ELSE b

\* a score num/den, capped at cap: min(num/den, cap) with the same
\* denominator
Capped(num, den, cap) == <<Min(num, cap * den), den>>

\* the scorer without the cap of lines 83-86
img_mse_unclamped(curI, refI) ==
    LET imgDif == [ p \in DOMAIN curI |->
                      [ c \in DOMAIN curI[p] |-> subtract(curI[p][c], refI[p][c]) ] ]
        err == np_sum([ p \in DOMAIN imgDif |->
                          [ c \in DOMAIN imgDif[p] |-> square(imgDif[p][c]) ] ])
        hw == Len(curI)
    IN  [ mse |-> <<err, hw>>, imgDif |-> imgDif ]

\* lines 76-87: the score, as the fraction <<numerator, denominator>>, and
\* the difference image
img_mse(curI, refI) ==
    LET imgDif == [ p \in DOMAIN curI |->
                      [ c \in DOMAIN curI[p] |-> subtract(curI[p][c], refI[p][c]) ] ]
        err == np_sum([ p \in DOMAIN imgDif |->
                          [ c \in DOMAIN imgDif[p] |-> square(imgDif[p][c]) ] ])
        hw == Len(curI)
    IN  [ mse |-> Capped(err, hw, MseCap), imgDif |-> imgDif ]

\* the orchestrator not running
StagesOff ==
    /\ stagesList = <<>>
    /\ pc = "off"
    /\ nextStage = 0
    /\ nextStageName = ""
    /\ now = 0
    /\ start = 0
    /\ subpath = -1
    /\ refImgList = 0
    /\ curImg = <<>>
    /\ index = 0
    /\ resultindex = -1
    /\ subPath = -1
    /\ actionPos = 0
    /\ calls = <<>>
    /\ shots = 0
    /\ exitStatus = NoExit
    /\ debugPlt = FALSE
    /\ scored = <<>>
    /\ plotted = <<>>
    /\ checked = {}
    /\ exception = <<>>

\* the driver not running
VmOff ==
    /\ vmQueue = <<>>
    /\ vmAct = 0
    /\ vmPc = "idle"
    /\ vmPos = 0
    /\ wire = <<>>

\* __img_mse called on two images of the same size
InitMse ==
    /\ StagesOff
    /\ VmOff
    /\ \E n \in 1..MaxPixels :
          /\ scorerCur \in Images(n)
          /\ scorerRef \in Images(n)
    /\ scorerOut = <<>>

\* lines 76-87: the call returns
ScoreImages ==
    /\ scorerOut = <<>>
    /\ scorerOut' = <<img_mse(scorerCur, scorerRef)>>
    /\ UNCHANGED <<scorerCur, scorerRef>>
    /\ UNCHANGED <<stagesList, pc, nextStage, nextStageName, now, start,
                   subpath, refImgList, curImg, index, resultindex, subPath,
                   actionPos, calls, shots, exitStatus, traceVars, vmVars>>

NextMse == ScoreImages

SpecMse == InitMse /\ [][NextMse]_vars

\* the sum over all pixels and channels of (cur - ref)^2 in the integers
TrueSquaredError(curI, refI) ==
    np_sum([ p \in DOMAIN curI |->
               [ c \in DOMAIN curI[p] |->
                   (curI[p][c] - refI[p][c]) * (curI[p][c] - refI[p][c]) ] ])

Abs(x) == IF x < 0 THEN 0 - x ELSE x

AbsDifference(curI, refI) ==
    [ p \in DOMAIN curI |->
        [ c \in DOMAIN curI[p] |-> Abs(curI[p][c] - refI[p][c]) ] ]

Returned == scorerOut # <<>>

\* C12: the score returned is min(10, S / (w*h)) with S the sum of the
\* squared differences in the integers, and the image returned is the
\* absolute difference.
C12_MseFormula ==
    Returned =>
        /\ scorerOut[1].mse =
              Capped(TrueSquaredError(scorerCur, scorerRef), Len(scorerCur), MseCap)
        /\ scorerOut[1].imgDif = AbsDifference(scorerCur, scorerRef)

\* C13: the score returned is between 0 and 10, and it is 0 when the two
\* images are equal.
C13_ClampLaw ==
    Returned =>
        /\ scorerOut[1].mse[1] >= 0
        /\ scorerOut[1].mse[1] <= MseCap * scorerOut[1].mse[2]
        /\ scorerOut[1].mse[2] = Len(scorerCur)
        /\ scorerCur = scorerRef => scorerOut[1].mse[1] = 0

\* C13 witness: a score cut down to 10, the squared differences summing up
\* to more than 10 per pixel
C13_Witness ==
    /\ Returned
    /\ img_mse_unclamped(scorerCur, scorerRef).mse[1] > MseCap * Len(scorerCur)
    /\ scorerOut[1].mse = <<MseCap * Len(scorerCur), Len(scorerCur)>>

(***************************************************************************)
(* The VM driver: keyboard actions of newvm.py (lines 61-162)              *)
(***************************************************************************)

\* length of the longest text of a keyboard_text action
MaxText == 2

Chars == {"a", "b"}

\* duration_s, in ticks
Durations == {1, 2}

\* keyboard_text: value is the text.  keyboard_key: value is the key, held
\* here as a text of one key.
TextActions ==
    { [kind |-> "keyboard_text", value |-> v, duration_s |-> d] :
        v \in {<<>>} \cup SeqsUpTo(Chars, MaxText), d \in Durations }

KeyActions ==
    { [kind |-> "keyboard_key", value |-> <<c>>, duration_s |-> 1] : c \in Chars }

VmActions == TextActions \cup KeyActions

\* what the caller hands to the driver: one action, or a key and then one
VmQueues ==
    { <<a>> : a \in VmActions } \cup { <<k, a>> : k \in KeyActions, a \in VmActions }

InitVm ==
    /\ StagesOff
    /\ scorerCur = <<>>
    /\ scorerRef = <<>>
    /\ scorerOut = <<>>
    /\ vmQueue \in VmQueues
    /\ vmAct = 1
    /\ vmPc = "call"
    /\ vmPos = 0
    /\ wire = <<>>

vmAction == vmQueue[vmAct]

OutsideVmUnchanged ==
    UNCHANGED <<stagesList, pc, nextStage, nextStageName, now, start, subpath,
                refImgList, curImg, index, resultindex, subPath, actionPos,
                calls, shots, exitStatus, traceVars, scorerVars>>

\* lines 87, 129: the caller calls the action's method; the method starts
\* with the press of the first key
VmCall ==
    /\ vmPc = "call"
    /\ vmAct <= Len(vmQueue)
    /\ vmAction.value # <<>>
    /\ vmPos' = 0
    /\ vmPc' = "down"
    /\ UNCHANGED <<vmQueue, vmAct, wire>>
    /\ OutsideVmUnchanged

\* line 87: the loop over an empty text runs no iteration
VmCallEmpty ==
    /\ vmPc = "call"
    /\ vmAct <= Len(vmQueue)
    /\ vmAction.value = <<>>
    /\ vmAct' = vmAct + 1
    /\ UNCHANGED <<vmQueue, vmPc, vmPos, wire>>
    /\ OutsideVmUnchanged

\* the caller has no more actions
VmFinish ==
    /\ vmPc = "call"
    /\ vmAct > Len(vmQueue)
    /\ vmPc' = "done"
    /\ UNCHANGED <<vmQueue, vmAct, vmPos, wire>>
    /\ OutsideVmUnchanged

\* an entry of wire: <<what, key, ticks, delivered>>
KeyEvent(what, key, ok) == <<what, key, 0, ok>>

Slept(d) == <<"sleep", "", d, TRUE>>

\* lines 103/120, 144/161 with 73-77: the monitor command returns
SendDelivered ==
    /\ vmPc \in {"down", "up"}
    /\ wire' = Append(wire, KeyEvent(vmPc, vmAction.value[vmPos + 1], TRUE))
    /\ vmPc' = IF vmPc = "down" THEN "sleep_down" ELSE "sleep_up"
    /\ UNCHANGED <<vmQueue, vmAct, vmPos>>
    /\ OutsideVmUnchanged

\* a failed command sent once more
SendFailed_retry ==
    /\ vmPc \in {"down", "up"}
    /\ wire' = Append(wire, KeyEvent(vmPc, vmAction.value[vmPos + 1], FALSE))
    /\ UNCHANGED <<vmQueue, vmAct, vmPos, vmPc>>
    /\ OutsideVmUnchanged

\* lines 103/120, 144/161 with 73-79: the monitor command raises
\* libvirtError; __send_action prints it and returns None
SendFailed ==
    /\ vmPc \in {"down", "up"}
    /\ wire' = Append(wire, KeyEvent(vmPc, vmAction.value[vmPos + 1], FALSE))
    /\ vmPc' = IF vmPc = "down" THEN "sleep_down" ELSE "sleep_up"
    /\ UNCHANGED <<vmQueue, vmAct, vmPos>>
    /\ OutsideVmUnchanged

\* the release of a key left out: after the sleep that follows the press
\* the loop goes on with the next key
SettleDelay_noRelease ==
    /\ vmPc \in {"sleep_down", "sleep_up"}
    /\ wire' = Append(wire, Slept(vmAction.duration_s))
    /\ IF vmPos + 1 < Len(vmAction.value)
         THEN vmPos' = vmPos + 1 /\ vmPc' = "down" /\ vmAct' = vmAct
         ELSE vmPos' = 0 /\ vmPc' = "call" /\ vmAct' = vmAct + 1
    /\ UNCHANGED vmQueue
    /\ OutsideVmUnchanged

\* lines 104/121, 145/162: sleep(duration_s); after the sleep that follows
\* the release the loop takes the next key, or the method returns
SettleDelay ==
    /\ vmPc \in {"sleep_down", "sleep_up"}
    /\ wire' = Append(wire, Slept(vmAction.duration_s))
    /\ IF vmPc = "sleep_down"
         THEN vmPos' = vmPos /\ vmPc' = "up" /\ vmAct' = vmAct
         ELSE IF vmPos + 1 < Len(vmAction.value)
                THEN vmPos' = vmPos + 1 /\ vmPc' = "down" /\ vmAct' = vmAct
                ELSE vmPos' = 0 /\ vmPc' = "call" /\ vmAct' = vmAct + 1
    /\ UNCHANGED vmQueue
    /\ OutsideVmUnchanged

NextVm ==
    \/ VmCall
    \/ VmCallEmpty
    \/ VmFinish
    \/ SendDelivered
    \/ SendFailed
    \/ SettleDelay

SpecVm == InitVm /\ [][NextVm]_vars

\* an entry of wire without the outcome of the delivery
Attempt(e) == <<e[1], e[2], e[3]>>

Attempts(w) == [ i \in DOMAIN w |-> Attempt(w[i]) ]

\* press, sleep, release, sleep of one key
KeyWire(c, d) ==
    << <<"down", c, 0>>, <<"sleep", "", d>>, <<"up", c, 0>>, <<"sleep", "", d>> >>

RECURSIVE TextWire(_, _)
TextWire(v, d) ==
    IF v = <<>> THEN <<>> ELSE KeyWire(Head(v), d) \o TextWire(Tail(v), d)

\* what a queue of actions puts on the wire when every delivery succeeds
RECURSIVE QueueWire(_)
QueueWire(q) ==
    IF q = <<>> THEN <<>>
    ELSE TextWire(Head(q).value, Head(q).duration_s) \o QueueWire(Tail(q))

\* C17: whatever deliveries fail, the commands sent and the sleeps made are
\* those of a run in which every delivery succeeds: each event is sent
\* once, the sleep follows it, the next event and the next action follow,
\* and the driver gets through all actions.
C17_FailedDeliverySwallowed ==
    /\ Len(wire) <= Len(QueueWire(vmQueue))
    /\ Attempts(wire) = SubSeq(QueueWire(vmQueue), 1, Len(wire))
    /\ vmPc = "done" => Len(wire) = Len(QueueWire(vmQueue))
    /\ vmPc \in {"down", "up"} => Len(wire) % 2 = 0
    /\ vmPc \in {"sleep_down", "sleep_up"} => Len(wire) % 2 = 1

\* C17 witness: the press of a key action failed, its release was sent
\* once, and the text action after it was delivered in full
C17_Witness ==
    /\ vmPc = "done"
    /\ Len(vmQueue) = 2
    /\ Len(wire) >= 8
    /\ wire[1][4] = FALSE
    /\ wire[3][4] = TRUE
    /\ vmQueue[2].kind = "keyboard_text"

\* the entry a text action puts on the wire at position i: press, sleep,
\* release, sleep of the character at position (i - 1) \div 4 + 1
TextEntry(a, i) ==
    LET c == a.value[((i - 1) \div 4) + 1]
        r == (i - 1) % 4
    IN  IF r = 0 THEN <<"down", c, 0>>
        ELSE IF r = 2 THEN <<"up", c, 0>>
        ELSE <<"sleep", "", a.duration_s>>

\* the keys held after the events of w, and whether a key was pressed
\* while another one was held
RECURSIVE Held(_)
Held(w) ==
    IF w = <<>> THEN {}
    ELSE LET e == w[Len(w)]
             before == Held(SubSeq(w, 1, Len(w) - 1))
         IN  IF e[1] = "down" THEN before \cup {e[2]}
             ELSE IF e[1] = "up" THEN before \ {e[2]}
             ELSE before

\* C18: a text action puts on the wire, for its characters in text order,
\* the press, a sleep of duration_s, the release of the same character and
\* a sleep of duration_s; when it returned all of them are there; a key is
\* pressed only while no key is held.
C18_TextPressReleasePairs ==
    LET a == vmQueue[1]
        n == Len(a.value)
    IN  a.kind = "keyboard_text" =>
          /\ \A i \in 1..Min(Len(wire), 4 * n) : Attempt(wire[i]) = TextEntry(a, i)
          /\ vmAct > 1 => Len(wire) = 4 * n
          /\ \A i \in 1..Len(wire) :
                wire[i][1] = "down" => Held(SubSeq(wire, 1, i - 1)) = {}
          /\ \A i \in 0..Len(wire) : Cardinality(Held(SubSeq(wire, 1, i))) <= 1

\* C18 witness: the text "ab" was delivered: four events, each followed
\* by its sleep, b pressed after a was released
C18_Witness ==
    /\ vmPc = "done"
    /\ vmQueue[1].kind = "keyboard_text"
    /\ vmQueue[1].value = <<"a", "b">>
    /\ Len(wire) = 8
    /\ wire[3][1] = "up" /\ wire[3][2] = "a"
    /\ wire[5][1] = "down" /\ wire[5][2] = "b"

====
